---- MODULE Spec2Model ----
(***************************************************************************)
(* Model of the two command-line tools of atlas-images-offchain:           *)
(*   replace_ids.py        read_ids, read_json, replace_ids_in_json,       *)
(*                         write_json, main                                *)
(*   update_image_urls.py  read_json, update_image_url,                    *)
(*                         replace_image_urls, write_json, main            *)
(* A run is one process: main() calls its stages in order and the process  *)
(* ends by falling off main (exit code 0), by sys.exit(1), or by an        *)
(* uncaught exception (traceback on stderr, exit code 1).                  *)
(*                                                                         *)
(* Strings are sequences of one-character strings.  A JSON value is a      *)
(* record [t, s, c]: t its type, s its text (strings, numbers), c its      *)
(* children (object: key -> value, array: index -> value).                 *)
(***************************************************************************)
EXTENDS Integers, Sequences, FiniteSets, TLC

VARIABLES
    tool,           \* which script runs: "ids" (replace_ids.py) or "urls"
    pc,             \* the statement of main() the process is at
    ids_file,       \* the file named by args.ids_file
    json_file,      \* the file named by args.json_file
    new_ids,        \* main's new_ids
    json_data,      \* main's json_data (mutated in place by the transformer)
    updated_count,  \* main's updated_count
    stdout,         \* what print() has written, in order
    traceback,      \* TRUE when the process died of an uncaught exception
    exit_code,      \* the process's exit status once pc = "exited"
    output_file     \* the file named by args.output

vars == <<tool, pc, ids_file, json_file, new_ids, json_data, updated_count,
          stdout, traceback, exit_code, output_file>>

---------------------------------------------------------------------------
(* Bounds of the model *)

MaxRecords == 3

MaxLines == 3

MaxNameParts == 3

---------------------------------------------------------------------------
(* JSON values as Python objects *)

V(t, s, c) == [t |-> t, s |-> s, c |-> c]

Null == V("null", <<>>, <<>>)

Num(s) == V("num", s, <<>>)

Str(s) == V("str", s, <<>>)

Obj(c) == V("obj", <<>>, c)

Arr(c) == V("arr", <<>>, c)

EmptyDict == Obj(<<>>)

IsDict(v) == v.t = "obj"

IsList(v) == v.t = "arr"

\* bool(v) of Python: None, 0, "", {} and [] are false
Truthy(v) ==
    CASE v.t = "null" -> FALSE
      [] v.t = "num" -> v.s # <<"0">>
      [] v.t = "str" -> v.s # <<>>
      [] OTHER -> v.c # <<>>

\* d.get(k, default)
DictGet(d, k, default) == IF k \in DOMAIN d.c THEN d.c[k] ELSE default

\* d[k] = v : the key is added when it is not there
DictSet(d, k, v) ==
    Obj([x \in DOMAIN d.c \cup {k} |-> IF x = k THEN v ELSE d.c[x]])

\* a line of print()
Msg(kind, n, m, s) == [kind |-> kind, n |-> n, m |-> m, s |-> s]

---------------------------------------------------------------------------
(* update_image_urls.py: update_image_url *)

OldFolder == <<"a", "t", "l", "a", "s", "-", "o", "f", "f", "c", "h", "a", "i", "n", "-", "i", "m", "a", "g", "e", "s">>

NewFolder == <<"a", "t", "l", "a", "s", "-", "i", "m", "a", "g", "e", "s", "-", "o", "f", "f", "c", "h", "a", "i", "n">>

AtlasToken == <<"A", "t", "l", "a", "s">>

PngToken == <<".", "p", "n", "g">>

Hyphen == <<"-">>

Newline == <<"\n">>

\* \d
IsDigit(ch) == ch \in {"0", "1", "2", "3", "4", "5", "6", "7", "8", "9"}

\* s[i:].startswith(t), i counted from 1
StartsWithAt(s, i, t) ==
    /\ i + Len(t) - 1 <= Len(s)
    /\ SubSeq(s, i, i + Len(t) - 1) = t

\* the least element of a non-empty set of positions
First(hits) == CHOOSE h \in hits : \A g \in hits : h <= g

RECURSIVE ReplaceFrom(_, _, _, _)
\* str.replace on s[i:]: every non-overlapping occurrence of old, found left
\* to right, becomes new
ReplaceFrom(s, i, old, new) ==
    LET hits == {j \in i..Len(s) : StartsWithAt(s, j, old)} IN
    IF hits = {} THEN SubSeq(s, i, Len(s))
    ELSE LET j == First(hits)
         IN SubSeq(s, i, j - 1) \o new \o ReplaceFrom(s, j + Len(old), old, new)

\* a bug: url.replace(old, new, 1), only the first occurrence is replaced
str_replace_first(s, old, new) ==
    LET hits == {i \in 1..Len(s) : StartsWithAt(s, i, old)} IN
    IF hits = {} THEN s
    ELSE LET i == First(hits) IN
         SubSeq(s, 1, i - 1) \o new \o SubSeq(s, i + Len(old), Len(s))

str_replace(s, old, new) == ReplaceFrom(s, 1, old, new)

RECURSIVE DigitRun(_, _)
\* the length of the longest run of digits of s that starts at i (greedy \d+)
DigitRun(s, i) ==
    IF i <= Len(s) /\ IsDigit(s[i]) THEN 1 + DigitRun(s, i + 1) ELSE 0

\* $ without re.MULTILINE: the end of the string, or just before a newline
\* that is the string's last character; p is the position of the next
\* character to read
AtDollar(s, p) ==
    \/ p = Len(s) + 1
    \/ p = Len(s) /\ s[p] = "\n"

\* the number of digits matched by (Atlas)(\d+)(\.png)$ at i, 0 for no match
MatchAt(s, i) ==
    IF ~StartsWithAt(s, i, AtlasToken) THEN 0
    ELSE LET k == DigitRun(s, i + Len(AtlasToken))
             p == i + Len(AtlasToken) + k
         IN IF /\ k >= 1
               /\ StartsWithAt(s, p, PngToken)
               /\ AtDollar(s, p + Len(PngToken))
            THEN k ELSE 0

RECURSIVE SubnFrom(_, _)
\* re.subn(pattern, r'\1-\2\3', s) on s[i:]: every non-overlapping match,
\* found left to right, is replaced; count is the number of matches
SubnFrom(s, i) ==
    LET hits == {j \in i..Len(s) : MatchAt(s, j) > 0} IN
    IF hits = {} THEN [out |-> SubSeq(s, i, Len(s)), count |-> 0]
    ELSE LET j == First(hits)
             last == j + Len(AtlasToken) + MatchAt(s, j) + Len(PngToken) - 1
             rest == SubnFrom(s, last + 1)
         IN [out |-> SubSeq(s, i, j - 1) \o AtlasToken \o Hyphen
                       \o SubSeq(s, j + Len(AtlasToken), last) \o rest.out,
             count |-> 1 + rest.count]

re_subn(s) == SubnFrom(s, 1)

\* [url: the returned string, warn: the warning was printed]
update_image_url(url) ==
    LET updated_url == str_replace(url, OldFolder, NewFolder)
        r == re_subn(updated_url)
    IN [url |-> r.out, warn |-> r.count = 0]

---------------------------------------------------------------------------
(* update_image_urls.py: replace_image_urls *)

\* a bug: the comparison left out, every rewritten URL is stored and counted
Differs_always(new_image_url, image_url) == TRUE

\* if new_image_url != image_url
Differs(new_image_url, image_url) == new_image_url # image_url

\* json_data[index - 1]['meta']['image'] = new_image_url
SetImage(entry, new_image_url) ==
    DictSet(entry, "meta", DictSet(entry.c["meta"], "image", new_image_url))

RECURSIVE UrlLoop(_, _)
\* the for loop, from entry #index on.  st.crashed: an AttributeError left
\* the loop (entry.get on a non-dict, meta.get on a non-dict, .replace on a
\* non-string); nothing in the script catches it.
UrlLoop(st, index) ==
    IF index > Len(st.data) THEN st
    ELSE LET entry == st.data[index] IN
      IF ~IsDict(entry) THEN [st EXCEPT !.crashed = TRUE]
      ELSE LET meta == DictGet(entry, "meta", EmptyDict) IN
        IF ~IsDict(meta) THEN [st EXCEPT !.crashed = TRUE]
        ELSE LET image_url == DictGet(meta, "image", Str(<<>>)) IN
          IF ~Truthy(image_url)
          THEN UrlLoop([st EXCEPT !.out =
                           Append(@, Msg("warn_no_image", index, 0, <<>>))],
                       index + 1)
          ELSE IF image_url.t # "str" THEN [st EXCEPT !.crashed = TRUE]
          ELSE LET r == update_image_url(image_url.s)
                   new_image_url == Str(r.url)
                   out1 == IF r.warn
                           THEN Append(st.out,
                                       Msg("warn_pattern", 0, 0, image_url.s))
                           ELSE st.out
               IN IF Differs(new_image_url, image_url)
                  THEN UrlLoop([data |-> [st.data EXCEPT ![index] =
                                            SetImage(entry, new_image_url)],
                                count |-> st.count + 1,
                                out |-> out1,
                                crashed |-> FALSE],
                               index + 1)
                  ELSE UrlLoop([st EXCEPT !.out = out1], index + 1)

\* [data: json_data after the call, count: updated_count, out: the lines
\*  printed, crashed: the call raised instead of returning]
replace_image_urls(data) ==
    UrlLoop([data |-> data, count |-> 0, out |-> <<>>, crashed |-> FALSE], 1)

---------------------------------------------------------------------------
(* replace_ids.py: read_ids, replace_ids_in_json *)

IsSpace(ch) == ch \in {" ", "\t", "\n"}

RECURSIVE LStrip(_)
LStrip(s) == IF s # <<>> /\ IsSpace(Head(s)) THEN LStrip(Tail(s)) ELSE s

RECURSIVE RStrip(_)
RStrip(s) ==
    IF s # <<>> /\ IsSpace(s[Len(s)]) THEN RStrip(SubSeq(s, 1, Len(s) - 1))
    ELSE s

\* line.strip()
Strip(s) == RStrip(LStrip(s))

RECURSIVE read_ids(_)
\* [line.strip() for line in f if line.strip()], each ID a str
read_ids(lines) ==
    IF lines = <<>> THEN <<>>
    ELSE IF Strip(Head(lines)) # <<>>
         THEN <<Str(Strip(Head(lines)))>> \o read_ids(Tail(lines))
         ELSE read_ids(Tail(lines))

\* a bug: only too few records are refused
LengthMismatch_fewer(data, ids) == Len(data) < Len(ids)

\* if len(json_data) != len(new_ids)
LengthMismatch(data, ids) == Len(data) # Len(ids)

\* a bug: the test left out, every entry is given an ID
HasId_always(entry) == TRUE

\* old_id = entry.get('id', None); if old_id is not None
HasId(entry) == DictGet(entry, "id", Null) # Null

\* a bug: the entry is rebuilt with its ID alone
SetId_alone(entry, new_id) == Obj([id |-> new_id])

\* entry['id'] = new_id
SetId(entry, new_id) == DictSet(entry, "id", new_id)

Min(a, b) == IF a <= b THEN a ELSE b

RECURSIVE IdLoop(_, _, _)
\* the for loop over zip(json_data, new_ids), from entry #index on; zip stops
\* at the shorter of the two.  st.crashed: entry.get on a non-dict raised.
IdLoop(st, ids, index) ==
    IF index > Min(Len(st.data), Len(ids)) THEN st
    ELSE LET entry == st.data[index] IN
      IF ~IsDict(entry) THEN [st EXCEPT !.crashed = TRUE]
      ELSE IF HasId(entry)
           THEN IdLoop([st EXCEPT !.data[index] = SetId(entry, ids[index])],
                       ids, index + 1)
           ELSE IdLoop([st EXCEPT !.out =
                           Append(@, Msg("warn_no_id", index, 0, <<>>))],
                       ids, index + 1)

\* [data: json_data after the call, out: the lines printed, exited: the call
\*  ended in sys.exit(1), crashed: the call raised instead of returning]
replace_ids_in_json(data, ids) ==
    IF LengthMismatch(data, ids)
    THEN [data |-> data,
          out |-> <<Msg("mismatch", Len(ids), Len(data), <<>>)>>,
          exited |-> TRUE, crashed |-> FALSE]
    ELSE IdLoop([data |-> data, out |-> <<>>, exited |-> FALSE,
                 crashed |-> FALSE], ids, 1)

---------------------------------------------------------------------------
(* read_json and write_json, the same code in both scripts *)

\* [ok: data was returned, data: the list, out: the line printed by read_json
\*  when it ends in sys.exit(1)].  file.state: "missing" (FileNotFoundError),
\*  "unreadable" (any other exception of open or read), "malformed"
\*  (json.JSONDecodeError), "ok" (json.load returns file.value).
read_json(file) ==
    CASE file.state = "missing" ->
           [ok |-> FALSE, data |-> <<>>,
            out |-> Msg("json_not_found", 0, 0, <<>>)]
      [] file.state = "unreadable" ->
           [ok |-> FALSE, data |-> <<>>,
            out |-> Msg("json_read_error", 0, 0, <<>>)]
      [] file.state = "malformed" ->
           [ok |-> FALSE, data |-> <<>>,
            out |-> Msg("json_parse_error", 0, 0, <<>>)]
      [] OTHER ->
           IF ~IsList(file.value)
           THEN [ok |-> FALSE, data |-> <<>>,
                 out |-> Msg("json_not_list", 0, 0, <<>>)]
           ELSE [ok |-> TRUE, data |-> file.value.c,
                 out |-> Msg("none", 0, 0, <<>>)]

\* the output file: "untouched" (never opened), "truncated" (opened for
\* writing, json.dump did not complete), "written" (holds the document)
NoOutput == [state |-> "untouched", content |-> <<>>]

\* io: "ok", "open_fails" (open raises), "dump_fails" (json.dump raises)
write_json(data, io) ==
    CASE io = "ok" -> [state |-> "written", content |-> data]
      [] io = "dump_fails" -> [state |-> "truncated", content |-> <<>>]
      [] OTHER -> NoOutput

---------------------------------------------------------------------------
(* The inputs of a run *)

RECURSIVE SeqsUpTo(_, _)
\* the sequences of at most n elements of S
SeqsUpTo(S, n) ==
    IF n = 0 THEN {<<>>}
    ELSE LET shorter == SeqsUpTo(S, n - 1)
         IN shorter \cup {Append(q, x) : q \in shorter, x \in S}

RECURSIVE Concats(_, _)
\* the concatenations of at most n strings of S
Concats(S, n) ==
    IF n = 0 THEN {<<>>}
    ELSE LET shorter == Concats(S, n - 1)
         IN shorter \cup {q \o x : q \in shorter, x \in S}

Host == <<"h", "t", "t", "p", "s", ":", "/", "/", "h", "a", "r", "t", "o", "-", "a", "t", "e", "l", "i", "e", "r", ".", "g", "i", "t", "h", "u", "b", ".", "i", "o", "/">>

ImagesDir == <<"/", "i", "m", "a", "g", "e", "s", "/">>

\* what a URL may hold before its file name
FolderParts ==
    { <<>>,
      Host \o OldFolder \o ImagesDir,
      Host \o NewFolder \o ImagesDir,
      OldFolder \o OldFolder,
      <<"a", "t", "l", "a", "s", "-">> \o OldFolder \o <<"-", "i", "m", "a", "g", "e", "s">>,
      <<"a", "t", "l", "a", "s", "-", "o", "f", "f", "c", "h", "a", "i", "n", "-">> \o OldFolder \o <<"/">> }

\* what a file name is made of
NameParts ==
    { AtlasToken, <<"0">>, Hyphen, PngToken, <<"x">> }

\* what may follow the file name
Tails == { <<>>, Newline, Newline \o Newline }

\* the URLs of the runs of one record
UrlInputs ==
    {f \o n \o t : f \in FolderParts, n \in Concats(NameParts, MaxNameParts),
                   t \in Tails}

ExampleUrl == Host \o OldFolder \o ImagesDir \o AtlasToken \o <<"0">> \o PngToken

ExampleUpdated ==
    Host \o NewFolder \o ImagesDir \o AtlasToken \o Hyphen \o <<"0">> \o PngToken

\* the URLs of the runs of several records
FewUrls ==
    { ExampleUrl,
      ExampleUpdated,
      OldFolder \o <<"/">> \o AtlasToken \o Hyphen \o <<"0">> \o PngToken,
      <<"x">> \o PngToken,
      AtlasToken \o <<"0">> \o PngToken \o Newline }

Name == Str(<<"n">>)

WithImage(image) == Obj([id |-> Num(<<"5">>), meta |-> Obj([image |-> image])])

\* the array elements of the runs of update_image_urls.py
UrlElems ==
    { Num(<<"7">>),
      Obj([id |-> Num(<<"5">>), meta |-> EmptyDict]),
      Obj([id |-> Num(<<"5">>)]),
      Obj([id |-> Num(<<"5">>), meta |-> Null]),
      WithImage(Str(<<>>)),
      WithImage(Num(<<"5">>)) }
    \cup {WithImage(Str(u)) : u \in FewUrls}

\* the array elements of the runs of replace_ids.py
IdElems ==
    { Num(<<"7">>),
      Obj([name |-> Name]),
      Obj([id |-> Null, name |-> Name]),
      Obj([id |-> Num(<<"0">>), name |-> Name,
           meta |-> Obj([image |-> Str(ExampleUrl)])]) }

\* the files json_file may name, their arrays made of elems
JsonFiles(elems) ==
    { [state |-> st, value |-> Null] : st \in {"missing", "unreadable", "malformed"} }
    \cup { [state |-> "ok", value |-> v] :
             v \in {Obj([not |-> Str(<<"a", " ", "l", "i", "s", "t">>)]),
                    Num(<<"7">>)}
                   \cup {Arr(q) : q \in SeqsUpTo(elems, MaxRecords)} }

Lines == { <<" ">>, <<"a">>, <<" ", "b", " ">> }

\* the files ids_file may name
IdsFiles ==
    { [state |-> st, lines |-> <<>>] : st \in {"missing", "unreadable"} }
    \cup { [state |-> "ok", lines |-> q] : q \in SeqsUpTo(Lines, MaxLines) }

NoIdsFile == [state |-> "missing", lines |-> <<>>]

---------------------------------------------------------------------------
(* main of both scripts *)

Start(t, jf, idf) ==
    /\ tool = t
    /\ pc = IF t = "ids" THEN "read_ids" ELSE "read_json"
    /\ json_file = jf
    /\ ids_file = idf
    /\ new_ids = <<>>
    /\ json_data = <<>>
    /\ updated_count = 0
    /\ stdout = <<>>
    /\ traceback = FALSE
    /\ exit_code = -1
    /\ output_file = NoOutput

Init ==
    \/ \E jf \in JsonFiles(IdElems), idf \in IdsFiles : Start("ids", jf, idf)
    \/ \E jf \in JsonFiles(UrlElems) : Start("urls", jf, NoIdsFile)

\* runs of update_image_urls.py on one record, its URL drawn from UrlInputs
InitUrl ==
    \E u \in UrlInputs :
        Start("urls",
              [state |-> "ok", value |-> Arr(<<Obj([meta |-> Obj([image |-> Str(u)])])>>)],
              NoIdsFile)

\* sys.exit(1) after printing out
Exit1(out) ==
    /\ stdout' = stdout \o out
    /\ pc' = "exited"
    /\ exit_code' = 1
    /\ traceback' = FALSE

\* an exception nothing catches: the interpreter prints the traceback on
\* stderr and the process ends with status 1
Crash(out) ==
    /\ stdout' = stdout \o out
    /\ pc' = "exited"
    /\ exit_code' = 1
    /\ traceback' = TRUE

\* new_ids = read_ids(args.ids_file); print(...)
ReadIds ==
    /\ pc = "read_ids"
    /\ IF ids_file.state = "missing"
       THEN Exit1(<<Msg("ids_not_found", 0, 0, <<>>)>>) /\ UNCHANGED new_ids
       ELSE IF ids_file.state = "unreadable"
       THEN Exit1(<<Msg("ids_read_error", 0, 0, <<>>)>>) /\ UNCHANGED new_ids
       ELSE /\ new_ids' = read_ids(ids_file.lines)
            /\ stdout' = Append(stdout, Msg("ids_count", Len(new_ids'), 0, <<>>))
            /\ pc' = "read_json"
            /\ UNCHANGED <<exit_code, traceback>>
    /\ UNCHANGED <<tool, ids_file, json_file, json_data, updated_count, output_file>>

\* json_data = read_json(args.json_file); print(...)
ReadJson ==
    /\ pc = "read_json"
    /\ LET r == read_json(json_file) IN
       IF ~r.ok
       THEN Exit1(<<r.out>>) /\ UNCHANGED json_data
       ELSE /\ json_data' = r.data
            /\ stdout' = Append(stdout, Msg("json_count", Len(r.data), 0, <<>>))
            /\ pc' = "replace"
            /\ UNCHANGED <<exit_code, traceback>>
    /\ UNCHANGED <<tool, ids_file, json_file, new_ids, updated_count, output_file>>

\* updated_json = replace_ids_in_json(json_data, new_ids)
ReplaceIds ==
    /\ pc = "replace"
    /\ tool = "ids"
    /\ LET r == replace_ids_in_json(json_data, new_ids) IN
       /\ json_data' = r.data
       /\ IF r.exited THEN Exit1(r.out)
          ELSE IF r.crashed THEN Crash(r.out)
          ELSE /\ stdout' = stdout \o r.out
               /\ pc' = "write"
               /\ UNCHANGED <<exit_code, traceback>>
    /\ UNCHANGED <<tool, ids_file, json_file, new_ids, updated_count, output_file>>

\* updated_json, updated_count = replace_image_urls(json_data); print(...)
ReplaceUrls ==
    /\ pc = "replace"
    /\ tool = "urls"
    /\ LET r == replace_image_urls(json_data) IN
       /\ json_data' = r.data
       /\ IF r.crashed
          THEN Crash(r.out) /\ UNCHANGED updated_count
          ELSE /\ updated_count' = r.count
               /\ stdout' = Append(stdout \o r.out,
                                   Msg("urls_updated", r.count, 0, <<>>))
               /\ pc' = "write"
               /\ UNCHANGED <<exit_code, traceback>>
    /\ UNCHANGED <<tool, ids_file, json_file, new_ids, output_file>>

\* write_json(updated_json, args.output), then main returns
WriteJson ==
    /\ pc = "write"
    /\ \E io \in {"ok", "open_fails", "dump_fails"} :
          /\ output_file' = write_json(json_data, io)
          /\ IF io = "ok"
             THEN /\ stdout' = Append(stdout, Msg("write_ok", 0, 0, <<>>))
                  /\ pc' = "exited"
                  /\ exit_code' = 0
                  /\ UNCHANGED traceback
             ELSE Exit1(<<Msg("write_error", 0, 0, <<>>)>>)
    /\ UNCHANGED <<tool, ids_file, json_file, new_ids, json_data, updated_count>>

NextUrls == ReadJson \/ ReplaceUrls \/ WriteJson

Next == ReadIds \/ ReplaceIds \/ NextUrls

Spec == Init /\ [][Next]_vars

SpecUrl == InitUrl /\ [][NextUrls]_vars

---------------------------------------------------------------------------
(* What the claims read *)

\* the array json_file holds, as read_json returned it
Loaded == json_file.value.c

AllObjects(data) == \A i \in 1..Len(data) : IsDict(data[i])

\* replace_ids_in_json was called and the process went on or ended
IdsCalled ==
    /\ tool = "ids"
    /\ ids_file.state = "ok"
    /\ read_json(json_file).ok
    /\ pc \in {"write", "exited"}

\* replace_image_urls was called and the process went on or ended
UrlsCalled ==
    /\ tool = "urls"
    /\ read_json(json_file).ok
    /\ pc \in {"write", "exited"}

LastOut == stdout[Len(stdout)]

\* the number of lines of stdout of this kind about entry #i
Printed(kind, i) ==
    Cardinality({k \in 1..Len(stdout) : stdout[k].kind = kind /\ stdout[k].n = i})

\* the string at meta.image of a record, <<>> when there is none
ImageOf(entry) ==
    IF /\ IsDict(entry)
       /\ IsDict(DictGet(entry, "meta", EmptyDict))
       /\ DictGet(DictGet(entry, "meta", EmptyDict), "image", Str(<<>>)).t = "str"
    THEN DictGet(DictGet(entry, "meta", EmptyDict), "image", Str(<<>>)).s
    ELSE <<>>

---------------------------------------------------------------------------
(* replace_ids.py *)

\* C1: with a RecordSet and an IdList of equal length, after
\* replace_ids_in_json every record that has an id field holds the ID of its
\* own position.
C1_EveryIdReplaced ==
    (IdsCalled /\ Len(Loaded) = Len(new_ids) /\ AllObjects(Loaded)) =>
        \A i \in 1..Len(Loaded) :
            "id" \in DOMAIN Loaded[i].c =>
                /\ "id" \in DOMAIN json_data[i].c
                /\ json_data[i].c["id"] = new_ids[i]

\* C2: with a RecordSet and an IdList of unequal length, no record is
\* changed, the run ends in sys.exit(1) after a line that reports the number
\* of IDs and the number of records, and the output file is never opened.
C2_MismatchAborts ==
    (IdsCalled /\ Len(Loaded) # Len(new_ids)) =>
        /\ json_data = Loaded
        /\ pc = "exited"
        /\ exit_code = 1
        /\ ~traceback
        /\ LastOut = Msg("mismatch", Len(new_ids), Len(Loaded), <<>>)
        /\ Printed("write_ok", 0) + Printed("write_error", 0) = 0
        /\ output_file = NoOutput

\* a mismatch with records whose IDs the loop would have replaced
C2_Witness ==
    /\ IdsCalled
    /\ Len(Loaded) > Len(new_ids)
    /\ Len(new_ids) > 0
    /\ IsDict(Loaded[1])
    /\ HasId(Loaded[1])

\* C3: with equal lengths, a record without an id field is left as it was
\* (no id is made for it) and exactly one warning carries its 1-based index;
\* every record of the sequence, before and after it, is processed once with
\* the ID of its own position: it holds that ID and has no warning, or it is
\* as loaded and has one warning; a record with an ID holds the new one.
C3_MissingIdSkipped ==
    (IdsCalled /\ Len(Loaded) = Len(new_ids) /\ AllObjects(Loaded)) =>
        \A i \in 1..Len(Loaded) :
            /\ \/ /\ "id" \in DOMAIN json_data[i].c
                  /\ json_data[i].c["id"] = new_ids[i]
                  /\ Printed("warn_no_id", i) = 0
               \/ /\ json_data[i] = Loaded[i]
                  /\ Printed("warn_no_id", i) = 1
            /\ "id" \notin DOMAIN Loaded[i].c =>
                  /\ json_data[i] = Loaded[i]
                  /\ "id" \notin DOMAIN json_data[i].c
                  /\ Printed("warn_no_id", i) = 1
            /\ ("id" \in DOMAIN Loaded[i].c /\ Loaded[i].c["id"] # Null) =>
                  /\ json_data[i].c["id"] = new_ids[i]
                  /\ Printed("warn_no_id", i) = 0

\* a record without id between two records with one, each with another ID
C3_Witness ==
    /\ IdsCalled
    /\ pc = "write"
    /\ Len(Loaded) = 3
    /\ AllObjects(Loaded)
    /\ "id" \notin DOMAIN Loaded[2].c
    /\ "id" \in DOMAIN Loaded[1].c /\ Loaded[1].c["id"] # Null
    /\ "id" \in DOMAIN Loaded[3].c /\ Loaded[3].c["id"] # Null
    /\ new_ids[1] # new_ids[3]
    /\ Printed("warn_no_id", 2) = 1

\* a and b are the same value but for the value of id, when they are objects
SameButId(a, b) ==
    IF IsDict(b)
    THEN /\ IsDict(a)
         /\ DOMAIN a.c = DOMAIN b.c
         /\ \A k \in DOMAIN b.c \ {"id"} : a.c[k] = b.c[k]
    ELSE a = b

\* C4: replace_ids_in_json changes nothing but id values: the number of
\* records and their order stay, and every field other than id of every
\* record is what was loaded.
C4_OnlyIdChanges ==
    IdsCalled =>
        /\ Len(json_data) = Len(Loaded)
        /\ \A i \in 1..Len(Loaded) : SameButId(json_data[i], Loaded[i])

\* a record with other fields whose ID was replaced
C4_Witness ==
    /\ IdsCalled
    /\ pc = "write"
    /\ \E i \in 1..Len(Loaded) :
          /\ IsDict(Loaded[i])
          /\ json_data[i] # Loaded[i]
          /\ {"name", "meta"} \subseteq DOMAIN Loaded[i].c

---------------------------------------------------------------------------
(* update_image_urls.py *)

\* C5: update_image_url is idempotent, so replace_image_urls run again on
\* its own output changes no record and counts 0.
C5_Idempotent ==
    /\ UrlsCalled =>
          \A i \in 1..Len(Loaded) :
              LET once == update_image_url(ImageOf(Loaded[i])).url
              IN update_image_url(once).url = once
    /\ (UrlsCalled /\ ~traceback) =>
          LET again == replace_image_urls(json_data)
          IN /\ ~again.crashed
             /\ again.data = json_data
             /\ again.count = 0

\* the first run rewrote the folder twice and the file name
C5_Witness ==
    /\ UrlsCalled
    /\ pc = "write"
    /\ updated_count = 1
    /\ ImageOf(Loaded[1]) = OldFolder \o OldFolder \o AtlasToken \o <<"0">> \o PngToken
    /\ ImageOf(json_data[1]) =
          NewFolder \o NewFolder \o AtlasToken \o Hyphen \o <<"0">> \o PngToken

\* s ends with Atlas, k digits and .png, Atlas at position j
EndsWithFileName(s, j, k) ==
    /\ k >= 1
    /\ j >= 1
    /\ j + Len(AtlasToken) + k + Len(PngToken) - 1 = Len(s)
    /\ StartsWithAt(s, j, AtlasToken)
    /\ \A d \in (j + Len(AtlasToken))..(j + Len(AtlasToken) + k - 1) : IsDigit(s[d])
    /\ StartsWithAt(s, j + Len(AtlasToken) + k, PngToken)

\* the two steps as the claim words them
TwoSteps(url) ==
    LET s1 == str_replace(url, OldFolder, NewFolder)
        ends == {j \in 1..Len(s1) : \E k \in 1..Len(s1) : EndsWithFileName(s1, j, k)}
    IN IF ends = {} THEN [url |-> s1, warn |-> TRUE]
       ELSE LET j == First(ends)
            IN [url |-> SubSeq(s1, 1, j + Len(AtlasToken) - 1) \o Hyphen
                          \o SubSeq(s1, j + Len(AtlasToken), Len(s1)),
                warn |-> FALSE]

\* C6: update_image_url(u) is the folder substitution followed by: if the
\* string ends with Atlas, digits and .png, a hyphen between Atlas and the
\* digits, otherwise the string as it is and a warning.
C6_TwoSteps ==
    (UrlsCalled /\ ~traceback) =>
        \A i \in 1..Len(Loaded) :
            ImageOf(Loaded[i]) # <<>> =>
                /\ ImageOf(json_data[i]) = TwoSteps(ImageOf(Loaded[i])).url
                /\ TwoSteps(ImageOf(Loaded[i])).warn <=>
                      \E k \in 1..Len(stdout) :
                          stdout[k] = Msg("warn_pattern", 0, 0, ImageOf(Loaded[i]))

\* the records whose value differs from the loaded one
ChangedRecords == {i \in 1..Len(Loaded) : json_data[i] # Loaded[i]}

\* C7: meta.image is overwritten only with a rewritten string that differs
\* from the original, and the count returned is the number of records whose
\* meta.image differs from what was loaded.
C7_CountIsChanged ==
    (UrlsCalled /\ ~traceback) =>
        /\ updated_count = Cardinality(ChangedRecords)
        /\ LastOut.kind = "urls_updated" => LastOut.n = Cardinality(ChangedRecords)
        /\ \A i \in ChangedRecords :
              /\ ImageOf(json_data[i]) # ImageOf(Loaded[i])
              /\ ImageOf(json_data[i]) = update_image_url(ImageOf(Loaded[i])).url
              /\ json_data[i] = SetImage(Loaded[i], Str(ImageOf(json_data[i])))

\* one record changed by the folder substitution alone, one with a URL that
\* stays, one without image
C7_Witness ==
    /\ UrlsCalled
    /\ pc = "write"
    /\ updated_count = 1
    /\ \E i, j, k \in 1..Len(Loaded) :
          /\ update_image_url(ImageOf(Loaded[i])).warn
          /\ json_data[i] # Loaded[i]
          /\ ImageOf(Loaded[j]) # <<>>
          /\ json_data[j] = Loaded[j]
          /\ IsDict(Loaded[k]) /\ "meta" \notin DOMAIN Loaded[k].c

\* C8: whatever array of records read_json returned, replace_image_urls
\* visits every record and returns: no record ends the run.
C8_NeverAborts ==
    (UrlsCalled /\ AllObjects(Loaded)) => ~traceback

\* C9: read_json returns only arrays of objects; every other document ends
\* the run before a transformer is called.
C9_OnlyObjectArrays ==
    pc \in {"replace", "write"} =>
        /\ IsList(json_file.value)
        /\ AllObjects(json_data)

\* the lines that report a fatal condition
FatalKinds ==
    {"ids_not_found", "ids_read_error", "json_not_found", "json_read_error",
     "json_parse_error", "json_not_list", "mismatch", "write_error"}

\* C10: a run ends in one of two ways: exit code 0 with the output document
\* written, or exit code 1 by a reported fatal condition, the output file
\* untouched unless the condition is a write failure.
C10_TwoOutcomes ==
    pc = "exited" =>
        \/ /\ exit_code = 0
           /\ output_file = [state |-> "written", content |-> json_data]
           /\ LastOut.kind = "write_ok"
        \/ /\ exit_code = 1
           /\ ~traceback
           /\ LastOut.kind \in FatalKinds
           /\ LastOut.kind # "write_error" => output_file = NoOutput

====
